---- MODULE Spec2Model ----
(***************************************************************************)
(* Model of the Lua lexer of listing/ch03.optimize_string/src/lex.rs.      *)
(*                                                                         *)
(* The byte source is an in-memory byte sequence `input` (every read       *)
(* succeeds, so the "lex read error" / "lex peek error" arms are never     *)
(* taken) and `pos` is the number of bytes the Peekable<Bytes<R>> iterator *)
(* has handed out.  Bytes are their numeric values 0..255; `byt as char`   *)
(* maps a byte to the Unicode scalar of the same value.  A panic!/todo!    *)
(* aborts the program: it is recorded in `status` and no operation is      *)
(* enabled afterwards.  f64 values are kept as exact reduced fractions and *)
(* i64 accumulators as plain integers: no input here has more than six     *)
(* digits in a row, far below the lengths at which either rounds or wraps. *)
(***************************************************************************)
EXTENDS Integers, Sequences, FiniteSets

VARIABLES input,    \* the bytes of the source (fixed after construction)
          pos,      \* Lex.input: how many bytes have been consumed
          ahead,    \* Lex.ahead
          status,   \* "ok", or the message of the panic that aborted
          lastOp,   \* "new", "next" or "peek": the last operation called
          lastTok,  \* the token the last operation returned
          lastFrom, \* the value of pos when the last operation was called
          scanned,  \* whether the last operation called do_next
          eofSeen   \* a next() has returned Eos with the source exhausted

vars == <<input, pos, ahead, status, lastOp, lastTok, lastFrom, scanned, eofSeen>>

\* Longest input drawn exhaustively from an alphabet.
MaxLen == 4

----------------------------------------------------------------------------
\* Tokens.  Every token is a record of the same shape so that any two can
\* be compared: kind, numeric payload n/d, byte or character payload s.

T(kind) == [kind |-> kind, n |-> 0, d |-> 1, s |-> <<>>]

Eos == T("Eos")

Integer(i) == [kind |-> "Integer", n |-> i, d |-> 1, s |-> <<>>]

RECURSIVE GCD(_, _)
GCD(a, b) == IF b = 0 THEN a ELSE GCD(b, a % b)

\* The f64 whose value is num/den, den > 0.
Float(num, den) ==
    LET g == GCD(num, den)
    IN  [kind |-> "Float", n |-> num \div g, d |-> den \div g, s |-> <<>>]

String(bytes) == [kind |-> "String", n |-> 0, d |-> 1, s |-> bytes]

Name(text) == [kind |-> "Name", n |-> 0, d |-> 1, s |-> text]

\* What a scanning function hands back: the token, the cursor after it, and
\* "ok" or the panic message.
Ok(tok, p) == [tok |-> tok, pos |-> p, status |-> "ok"]

Panic(msg, p) == [tok |-> Eos, pos |-> p, status |-> msg]

----------------------------------------------------------------------------
\* Character classes of `byt as char` for byt in 0..255.

\* char::to_digit(byt as char, 10).is_some(), and the pattern b'0'..=b'9'
IsDigit(byt) == byt \in 48..57

\* the pattern b'A'..=b'Z' | b'a'..=b'z'
IsAsciiLetter(byt) == byt \in (65..90) \cup (97..122)

\* char::is_alphabetic on U+0000..U+00FF
IsAlphabetic(byt) ==
    byt \in (65..90) \cup (97..122) \cup {170, 181, 186}
            \cup (192..214) \cup (216..246) \cup (248..255)

\* char::is_alphanumeric on U+0000..U+00FF
IsAlphanumeric(byt) ==
    IsAlphabetic(byt) \/ byt \in (48..57) \cup {178, 179, 185} \cup (188..190)

----------------------------------------------------------------------------
\* Byte cursor.

peek_byte(p) == IF p < Len(input) THEN input[p + 1] ELSE 0

\* A source that hands out 255 at its end.
next_byte_eof255(p) ==
    IF p < Len(input) THEN [byt |-> input[p + 1], pos |-> p + 1]
                      ELSE [byt |-> 255, pos |-> p]

next_byte(p) ==
    IF p < Len(input) THEN [byt |-> input[p + 1], pos |-> p + 1]
                      ELSE [byt |-> 0, pos |-> p]

----------------------------------------------------------------------------
\* Operators of one or two bytes.

\* check_ahead that takes the following byte whatever it is.
check_ahead_greedy(p, ahead_byte, long, short) ==
    IF peek_byte(p) = ahead_byte THEN Ok(long, next_byte(p).pos)
                                 ELSE Ok(short, next_byte(p).pos)

check_ahead(p, ahead_byte, long, short) ==
    IF peek_byte(p) = ahead_byte THEN Ok(long, next_byte(p).pos)
                                 ELSE Ok(short, p)

check_ahead2(p, ahead1, long1, ahead2, long2, short) ==
    LET byt == peek_byte(p)
    IN  IF byt = ahead1 THEN Ok(long1, next_byte(p).pos)
        ELSE IF byt = ahead2 THEN Ok(long2, next_byte(p).pos)
        ELSE Ok(short, p)

----------------------------------------------------------------------------
\* Numbers.

read_number_exp(p) == Panic("not yet implemented: lex number exp", next_byte(p).pos)

read_heximal(p) == Panic("not yet implemented: lex heximal", next_byte(p).pos)

RECURSIVE read_number_fraction_loop(_, _, _, _)
read_number_fraction_loop(p, i, n, x) ==
    LET byt == peek_byte(p)
    IN  IF IsDigit(byt)
        THEN read_number_fraction_loop(next_byte(p).pos, i, n * 10 + (byt - 48), x * 10)
        ELSE Ok(Float(i * x + n, x), p)

read_number_fraction(p, i) ==
    read_number_fraction_loop(next_byte(p).pos, i, 0, 1)

\* read_number without its check of what follows the digits.
read_number_following_unchecked(p, n) == Ok(Integer(n), p)

read_number_following(p, n) ==
    LET fch == peek_byte(p)
    IN  IF IsAlphabetic(fch) \/ fch = 46
        THEN Panic("malformat number", p)
        ELSE Ok(Integer(n), p)

RECURSIVE read_number_loop(_, _)
read_number_loop(p, n) ==
    LET byt == peek_byte(p)
    IN  IF IsDigit(byt) THEN read_number_loop(next_byte(p).pos, n * 10 + (byt - 48))
        ELSE IF byt = 46 THEN read_number_fraction(p, n)
        ELSE IF byt \in {101, 69} THEN read_number_exp(p)
        ELSE read_number_following(p, n)

read_number(p, first) ==
    IF first = 48 /\ peek_byte(p) \in {120, 88}
    THEN read_heximal(p)
    ELSE read_number_loop(p, first - 48)

----------------------------------------------------------------------------
\* Strings.

\* A closing test that takes either quote character.
string_closes_any(byt, quote) == byt \in {39, 34}

string_closes(byt, quote) == byt = quote

RECURSIVE read_string_loop(_, _, _)
read_string_loop(p, quote, s) ==
    LET nb == next_byte(p)
    IN  IF nb.byt \in {10, 0} THEN Panic("unfinished string", nb.pos)
        ELSE IF nb.byt = 92 THEN Panic("not yet implemented: escape", nb.pos)
        ELSE IF string_closes(nb.byt, quote) THEN Ok(String(s), nb.pos)
        ELSE read_string_loop(nb.pos, quote, Append(s, nb.byt))

read_string(p, quote) == read_string_loop(p, quote, <<>>)

----------------------------------------------------------------------------
\* Names and keywords.

Keywords ==
    { <<"And", <<97, 110, 100>>>>,                           \* "and"
      <<"Break", <<98, 114, 101, 97, 107>>>>,                \* "break"
      <<"Do", <<100, 111>>>>,                                \* "do"
      <<"Else", <<101, 108, 115, 101>>>>,                    \* "else"
      <<"Elseif", <<101, 108, 115, 101, 105, 102>>>>,        \* "elseif"
      <<"End", <<101, 110, 100>>>>,                          \* "end"
      <<"False", <<102, 97, 108, 115, 101>>>>,               \* "false"
      <<"For", <<102, 111, 114>>>>,                          \* "for"
      <<"Function", <<102, 117, 110, 99, 116, 105, 111, 110>>>>, \* "function"
      <<"Goto", <<103, 111, 116, 111>>>>,                    \* "goto"
      <<"If", <<105, 102>>>>,                                \* "if"
      <<"In", <<105, 110>>>>,                                \* "in"
      <<"Local", <<108, 111, 99, 97, 108>>>>,                \* "local"
      <<"Nil", <<110, 105, 108>>>>,                          \* "nil"
      <<"Not", <<110, 111, 116>>>>,                          \* "not"
      <<"Or", <<111, 114>>>>,                                \* "or"
      <<"Repeat", <<114, 101, 112, 101, 97, 116>>>>,         \* "repeat"
      <<"Return", <<114, 101, 116, 117, 114, 110>>>>,        \* "return"
      <<"Then", <<116, 104, 101, 110>>>>,                    \* "then"
      <<"True", <<116, 114, 117, 101>>>>,                    \* "true"
      <<"Until", <<117, 110, 116, 105, 108>>>>,              \* "until"
      <<"While", <<119, 104, 105, 108, 101>>>> }             \* "while"

\* A match that leaves "do" out of the table.
name_token_no_do(s) ==
    IF \E k \in Keywords : k[2] = s /\ k[1] # "Do"
    THEN T((CHOOSE k \in Keywords : k[2] = s)[1])
    ELSE Name(s)

name_token(s) ==
    IF \E k \in Keywords : k[2] = s
    THEN T((CHOOSE k \in Keywords : k[2] = s)[1])
    ELSE Name(s)

RECURSIVE read_name_loop(_, _)
read_name_loop(p, s) ==
    LET ch == peek_byte(p)
    IN  IF IsAlphanumeric(ch) \/ ch = 95
        THEN read_name_loop(next_byte(p).pos, Append(s, ch))
        ELSE Ok(name_token(s), p)

read_name(p, first) == read_name_loop(p, <<first>>)

----------------------------------------------------------------------------
\* Comments.  '--' has been read.

RECURSIVE read_comment_loop(_)
read_comment_loop(p) ==
    LET nb == next_byte(p)
    IN  IF nb.byt \in {10, 0} THEN Ok(Eos, nb.pos)
        ELSE read_comment_loop(nb.pos)

read_comment(p) ==
    LET nb == next_byte(p)
    IN  IF nb.byt = 91 THEN Panic("not yet implemented: long comment", nb.pos)
        ELSE read_comment_loop(nb.pos)

----------------------------------------------------------------------------
\* The scanner.

RECURSIVE do_next(_)
do_next(p) ==
    LET nb  == next_byte(p)
        byt == nb.byt
        q   == nb.pos
    IN  CASE byt \in {10, 13, 9, 32} -> do_next(q)
          [] byt = 43  -> Ok(T("Add"), q)
          [] byt = 42  -> Ok(T("Mul"), q)
          [] byt = 37  -> Ok(T("Mod"), q)
          [] byt = 94  -> Ok(T("Pow"), q)
          [] byt = 35  -> Ok(T("Len"), q)
          [] byt = 38  -> Ok(T("BitAnd"), q)
          [] byt = 124 -> Ok(T("BitOr"), q)
          [] byt = 40  -> Ok(T("ParL"), q)
          [] byt = 41  -> Ok(T("ParR"), q)
          [] byt = 123 -> Ok(T("CurlyL"), q)
          [] byt = 125 -> Ok(T("CurlyR"), q)
          [] byt = 91  -> Ok(T("SqurL"), q)
          [] byt = 93  -> Ok(T("SqurR"), q)
          [] byt = 59  -> Ok(T("SemiColon"), q)
          [] byt = 44  -> Ok(T("Comma"), q)
          [] byt = 47  -> check_ahead(q, 47, T("Idiv"), T("Div"))
          [] byt = 61  -> check_ahead(q, 61, T("Equal"), T("Assign"))
          [] byt = 126 -> check_ahead(q, 61, T("NotEq"), T("BitXor"))
          [] byt = 58  -> check_ahead(q, 58, T("DoubColon"), T("Colon"))
          [] byt = 60  -> check_ahead2(q, 61, T("LesEq"), 60, T("ShiftL"), T("Less"))
          [] byt = 62  -> check_ahead2(q, 61, T("GreEq"), 62, T("ShiftR"), T("Greater"))
          [] byt \in {39, 34} -> read_string(q, byt)
          [] byt = 46  ->
                IF peek_byte(q) = 46
                THEN LET q2 == next_byte(q).pos
                     IN  IF peek_byte(q2) = 46 THEN Ok(T("Dots"), next_byte(q2).pos)
                                               ELSE Ok(T("Concat"), q2)
                ELSE IF IsDigit(peek_byte(q)) THEN read_number_fraction(q, 0)
                ELSE Ok(T("Dot"), q)
          [] byt = 45  ->
                IF peek_byte(q) = 45
                THEN LET c == read_comment(next_byte(q).pos)
                     IN  IF c.status = "ok" THEN do_next(c.pos) ELSE c
                ELSE Ok(T("Sub"), q)
          [] IsDigit(byt) -> read_number(q, byt)
          [] IsAsciiLetter(byt) \/ byt = 95 -> read_name(q, byt)
          [] byt = 0   -> Ok(Eos, q)
          [] OTHER     -> Panic("invalid char", q)

----------------------------------------------------------------------------
\* The two public operations.

\* Lex::new
new(bytes) ==
    /\ input = bytes
    /\ pos = 0
    /\ ahead = Eos
    /\ status = "ok"
    /\ lastOp = "new"
    /\ lastTok = Eos
    /\ lastFrom = 0
    /\ scanned = FALSE
    /\ eofSeen = FALSE

\* Lex::next
next ==
    /\ status = "ok"
    /\ lastOp' = "next"
    /\ lastFrom' = pos
    /\ scanned' = (ahead = Eos)
    /\ input' = input
    /\ IF ahead = Eos
       THEN LET r == do_next(pos)
            IN  /\ pos' = r.pos
                /\ status' = r.status
                /\ ahead' = ahead
                /\ lastTok' = IF r.status = "ok" THEN r.tok ELSE lastTok
                /\ eofSeen' = (eofSeen \/ (r.status = "ok" /\ r.tok = Eos
                                           /\ r.pos = Len(input)))
       ELSE /\ lastTok' = ahead
            /\ ahead' = Eos
            /\ UNCHANGED <<pos, status, eofSeen>>

\* Lex::peek
peek ==
    /\ status = "ok"
    /\ lastOp' = "peek"
    /\ lastFrom' = pos
    /\ scanned' = (ahead = Eos)
    /\ input' = input
    /\ eofSeen' = eofSeen
    /\ IF ahead = Eos
       THEN LET r == do_next(pos)
            IN  /\ pos' = r.pos
                /\ status' = r.status
                /\ ahead' = IF r.status = "ok" THEN r.tok ELSE ahead
                /\ lastTok' = IF r.status = "ok" THEN r.tok ELSE lastTok
       ELSE /\ lastTok' = ahead
            /\ UNCHANGED <<pos, status, ahead>>

Next == next \/ peek

----------------------------------------------------------------------------
\* Inputs.

Seqs(A, n) == UNION {[1..k -> A] : k \in 0..n}

\* NUL, space, newline, '+', '1', 'a'
AlphaLook == {0, 32, 10, 43, 49, 97}

Init == \E bytes \in Seqs(AlphaLook, MaxLen) : new(bytes)

Spec == Init /\ [][Next]_vars

\* '-', newline, '1', '[', space; and the two inputs "-- comment\n123" and
\* "--\n123\n456"
AlphaComment == {45, 10, 49, 91, 32}

InitComment ==
    \E bytes \in Seqs(AlphaComment, MaxLen)
                 \cup { <<45, 45, 32, 99, 111, 109, 109, 101, 110, 116, 10, 49, 50, 51>>,
                        <<45, 45, 10, 49, 50, 51, 10, 52, 53, 54>> } : new(bytes)

SpecComment == InitComment /\ [][Next]_vars

\* '.', '0', '5', 'e', 'x', 'a', space, U+00E9; and the inputs "123",
\* "12.5", "1.5e3", "1abc"
AlphaNumber == {46, 48, 53, 101, 120, 97, 32, 233}

InitNumber ==
    \E bytes \in Seqs(AlphaNumber, MaxLen)
                 \cup { <<49, 50, 51>>, <<49, 50, 46, 53>>,
                        <<49, 46, 53, 101, 51>>, <<49, 97, 98, 99>> } : new(bytes)

SpecNumber == InitNumber /\ [][Next]_vars

\* '/', '=', '~', ':', '<', '>', space, 'a'
AlphaOps == {47, 61, 126, 58, 60, 62, 32, 97}

InitOps == \E bytes \in Seqs(AlphaOps, MaxLen) : new(bytes)

SpecOps == InitOps /\ [][Next]_vars

\* 'd', 'o', 'i', 'f', '1', '_', space, U+00E9; and the inputs "while",
\* "while1", "While", "Do", "DO"
AlphaName == {100, 111, 105, 102, 49, 95, 32, 233}

InitName ==
    \E bytes \in Seqs(AlphaName, MaxLen)
                 \cup { <<119, 104, 105, 108, 101>>, <<119, 104, 105, 108, 101, 49>>,
                        <<87, 104, 105, 108, 101>>, <<68, 111>>, <<68, 79>> } : new(bytes)

SpecName == InitName /\ [][Next]_vars

\* "'", '"', 'a', newline, backslash, NUL, space; and the inputs "'abc'" and
\* "'abc"
AlphaString == {39, 34, 97, 10, 92, 0, 32}

InitString ==
    \E bytes \in Seqs(AlphaString, MaxLen)
                 \cup { <<39, 97, 98, 99, 39>>, <<39, 97, 98, 99>> } : new(bytes)

SpecString == InitString /\ [][Next]_vars

----------------------------------------------------------------------------
\* Positions in the input, read off the bytes themselves.

Min(S) == CHOOSE x \in S : \A y \in S : x <= y

\* The first position at or after p that does not hold a decimal digit.
DigitsEnd(p) == Min({j \in p..(Len(input) + p) : ~IsDigit(peek_byte(j))})

\* The decimal value of the digits at positions p .. j-1.
RECURSIVE DigitsValue(_, _)
DigitsValue(p, j) ==
    IF j <= p THEN 0 ELSE DigitsValue(p, j - 1) * 10 + (peek_byte(j - 1) - 48)

RECURSIVE Pow10(_)
Pow10(k) == IF k = 0 THEN 1 ELSE 10 * Pow10(k - 1)

\* The cursor just after the first newline at or after p, or the end of the
\* input when there is none.
AfterLine(p) ==
    LET nls == {j \in p..(Len(input) - 1) : input[j + 1] = 10}
    IN  IF nls = {} THEN Len(input) ELSE Min(nls) + 1

\* The last operation scanned, and its scan began with the byte `byt`.
ScanFrom(byt) == scanned /\ lastFrom < Len(input) /\ input[lastFrom + 1] = byt

----------------------------------------------------------------------------
\* C1: two peeks in a row with no next() in between return equal tokens and
\* the second one does not move the byte cursor (and does not abort),
\* whatever the first one scanned, Eos included.
C1_PeekIdempotent ==
    [][(lastOp = "peek" /\ lastOp' = "peek")
        => (status' = "ok" /\ lastTok' = lastTok /\ pos' = pos)]_vars

\* C2: the next() that directly follows a peek() returns the peeked token,
\* does not move the byte cursor, and leaves ahead = Eos, whatever the token,
\* Eos included.
C2_NextAfterPeek ==
    [][(lastOp = "peek" /\ lastOp' = "next")
        => (status' = "ok" /\ lastTok' = lastTok /\ pos' = pos /\ ahead' = Eos)]_vars

\* C3: a scan that begins with '--' not followed by '[' consumes the comment
\* up to and including the first newline after the '--' (or to the end of
\* the input) and nothing more: its outcome is that of scanning from just
\* after that newline.
C3_LineCommentOnly ==
    (ScanFrom(45) /\ peek_byte(lastFrom + 1) = 45 /\ peek_byte(lastFrom + 2) # 91)
    => LET r == do_next(AfterLine(lastFrom + 2))
       IN  /\ status = r.status
           /\ pos = r.pos
           /\ (r.status = "ok" => lastTok = r.tok)

\* C4: a scan that begins with '.' followed by the digits d1..dk, k >= 1,
\* returns Float(0.d1...dk) and consumes exactly '.d1..dk'.
C4_LeadingDotFraction ==
    (ScanFrom(46) /\ IsDigit(peek_byte(lastFrom + 1)))
    => LET j == DigitsEnd(lastFrom + 1)
       IN  /\ status = "ok"
           /\ lastTok = Float(DigitsValue(lastFrom + 1, j), Pow10(j - (lastFrom + 1)))
           /\ pos = j

\* The numeric literal that starts at s has an 'e' or 'E' right after its
\* digits, in decimal mode or after a '.'.
ExponentFollows(s) ==
    LET E == {101, 69}
        j == DigitsEnd(s)
    IN  \/ /\ IsDigit(peek_byte(s))
           /\ ~(peek_byte(s) = 48 /\ peek_byte(s + 1) \in {120, 88})
           /\ \/ peek_byte(j) \in E
              \/ peek_byte(j) = 46 /\ peek_byte(DigitsEnd(j + 1)) \in E
        \/ /\ peek_byte(s) = 46
           /\ IsDigit(peek_byte(s + 1))
           /\ peek_byte(DigitsEnd(s + 1)) \in E

\* C5: a numeric literal whose digits are directly followed by 'e' or 'E',
\* in decimal mode or in fractional mode, aborts the scan with the
\* unsupported-exponent stop; no Integer or Float is returned for it.
C5_ExponentStops ==
    (scanned /\ lastFrom < Len(input) /\ ExponentFollows(lastFrom))
    => status = "not yet implemented: lex number exp"

\* C6: once a next() has returned Eos with the byte source exhausted, every
\* later next() and peek() returns Eos and none aborts.
C6_EosStable == eofSeen => (status = "ok" /\ lastTok = Eos)

C6_Witness ==
    /\ eofSeen /\ lastOp = "peek" /\ status = "ok"
    /\ \E k \in 1..Len(input) : input[k] \notin {0, 32, 10}

\* The two-byte operators: first byte, continuation byte, long token.
LongOps ==
    { <<47, 47, "Idiv">>, <<61, 61, "Equal">>, <<126, 61, "NotEq">>,
      <<58, 58, "DoubColon">>, <<60, 61, "LesEq">>, <<60, 60, "ShiftL">>,
      <<62, 61, "GreEq">>, <<62, 62, "ShiftR">> }

\* The one-byte tokens of the same first bytes.
ShortOps ==
    { <<47, "Div">>, <<61, "Assign">>, <<126, "BitXor">>,
      <<58, "Colon">>, <<60, "Less">>, <<62, "Greater">> }

\* C7: a scan that begins with one of / = ~ : < > returns the long token and
\* consumes two bytes when the following byte is a continuation of it, and
\* otherwise returns the short token and consumes one byte, leaving the
\* following byte for the next scan.
C7_OperatorLookahead ==
    \A sh \in ShortOps :
        ScanFrom(sh[1])
        => LET b == peek_byte(lastFrom + 1)
               longs == {l \in LongOps : l[1] = sh[1] /\ l[2] = b}
           IN  /\ status = "ok"
               /\ IF longs = {}
                  THEN lastTok = T(sh[2]) /\ pos = lastFrom + 1
                  ELSE /\ \A l \in longs : lastTok = T(l[3])
                       /\ pos = lastFrom + 2

C7_Witness ==
    /\ ScanFrom(60) /\ lastFrom + 1 < Len(input) /\ peek_byte(lastFrom + 1) = 62
    /\ lastTok = T("Less") /\ pos = lastFrom + 1

\* The first position at or after p that does not hold an alphanumeric
\* character or an underscore.
NameEnd(p) ==
    Min({j \in p..(Len(input) + p) : ~(IsAlphanumeric(peek_byte(j)) \/ peek_byte(j) = 95)})

\* C8: no Name token that is returned or buffered spells a keyword, and a
\* scan that begins with a letter or underscore consumes the maximal run of
\* alphanumeric-or-underscore characters and returns the keyword token when
\* the whole run is a keyword spelling and Name(run) otherwise.
C8_KeywordBoundary ==
    /\ \A t \in {lastTok, ahead} :
           t.kind = "Name" => \A k \in Keywords : t.s # k[2]
    /\ (scanned /\ lastFrom < Len(input)
        /\ (IsAsciiLetter(peek_byte(lastFrom)) \/ peek_byte(lastFrom) = 95))
       => LET j == NameEnd(lastFrom)
              run == SubSeq(input, lastFrom + 1, j)
          IN  /\ status = "ok"
              /\ pos = j
              /\ \A k \in Keywords : run = k[2] => lastTok = T(k[1])
              /\ (\A k \in Keywords : run # k[2]) => lastTok = Name(run)

C8_Witness ==
    /\ status = "ok" /\ scanned
    /\ lastTok = Name(<<119, 104, 105, 108, 101, 49>>)

\* C9: a scan that begins with a quote q reads up to the first later byte
\* that is q, a newline, the end of the input (the byte 0 that next_byte
\* reports) or a backslash.  On q it returns String of the bytes in between
\* and the cursor is just after the closing q; on a newline or the end of
\* the input it aborts as an unfinished string; on a backslash it aborts
\* with the unsupported-escape stop.
C9_StringLiteral ==
    \A q \in {39, 34} :
        ScanFrom(q)
        => LET j == Min({k \in (lastFrom + 1)..(Len(input) + lastFrom + 1) :
                             peek_byte(k) \in {q, 10, 0, 92}})
               c == peek_byte(j)
           IN  /\ c = q => /\ status = "ok"
                           /\ lastTok = String(SubSeq(input, lastFrom + 2, j))
                           /\ pos = j + 1
               /\ c \in {10, 0} => status = "unfinished string"
               /\ c = 92 => status = "not yet implemented: escape"

C9_Witness ==
    /\ ScanFrom(39) /\ status = "ok"
    /\ lastTok = String(<<97, 34>>)

\* C10: a scan never returns an Integer when the byte right after the
\* scanned digits is alphabetic or '.', and a decimal digit run that is
\* directly followed by an alphabetic byte aborts the scan: as a malformed
\* number, except that 'e'/'E' and the '0x'/'0X' prefix abort with their
\* own unsupported-feature stops.
C10_MalformedNumber ==
    /\ (scanned /\ status = "ok" /\ lastTok.kind = "Integer")
       => ~(IsAlphabetic(peek_byte(pos)) \/ peek_byte(pos) = 46)
    /\ (scanned /\ lastFrom < Len(input) /\ IsDigit(peek_byte(lastFrom))
        /\ IsAlphabetic(peek_byte(DigitsEnd(lastFrom))))
       => LET j == DigitsEnd(lastFrom)
              c == peek_byte(j)
          IN  IF c \in {101, 69}
              THEN status = "not yet implemented: lex number exp"
              ELSE IF j = lastFrom + 1 /\ peek_byte(lastFrom) = 48 /\ c \in {120, 88}
              THEN status = "not yet implemented: lex heximal"
              ELSE status = "malformat number"

C10_Witness ==
    /\ scanned /\ lastFrom < Len(input) /\ IsDigit(peek_byte(lastFrom))
    /\ peek_byte(DigitsEnd(lastFrom)) = 97
    /\ status = "malformat number"

====
